---- MODULE Spec2Model ----
(***************************************************************************)
(* A model of github.com/fishbrain/logging-go (package logging).           *)
(*                                                                         *)
(* src/logging.go carries two revisions of the file one after the other   *)
(* (lines 1-328 and 330-598).  The model follows the first revision, the   *)
(* one with the package's own bugsnagHook and the before-notify callback;  *)
(* the operations the two revisions share (level mapping, the With*        *)
(* methods, the NSQ adapter, the Init guard) read the same in both.        *)
(* WithDuration differs between them and is modelled twice: WithDuration  *)
(* (lines 176-179) and WithDurationNSQ (lines 500-504).                    *)
(*                                                                         *)
(* The package is a thin layer over three libraries that go.mod pins:      *)
(* logrus v1.4.2 (entries, level filter, hooks, the logger's mutex around  *)
(* formatting and writing), go-nsq (the queue client's level names) and    *)
(* bugsnag-go (Configure, OnBeforeNotify, Notify).  Where an operation of  *)
(* the package is a call into one of them, the definition states what the  *)
(* library does at that call and says so.                                  *)
(*                                                                         *)
(* Strings that the code inspects byte by byte (TrimSpace, Split, Atoi,    *)
(* the three-byte NSQ tag) are sequences of one-byte strings.  Integers    *)
(* the code stores as field values are kept as their decimal text, so      *)
(* that the 64-bit range of Go's int is exact.                             *)
(***************************************************************************)
EXTENDS Integers, Sequences, FiniteSets, TLC

VARIABLES
    Log,            \* the package variable Log: NoLogger (nil) or a logger
    bugsnagClient,  \* the bugsnag client's process-wide configuration
    initCalls,      \* history: the configurations Init was called with
    entries,        \* the heap of Entry objects, by address 1..Len(entries)
    sink,           \* what was written through Log.Out, in segments
    stderr,         \* the lines logrus printed on os.Stderr
    nsqLogger,      \* the adapter NSQLogger() last returned, or NoAdapter
    mu,             \* who holds the logger's mutex: {} or {goroutine}
    goroutines,     \* the goroutines emitting concurrently
    proc,           \* "running", "exited" (Fatal), "panicked", "hung"
    lastOp          \* the last call made on the main goroutine, its result

vars == <<Log, bugsnagClient, initCalls, entries, sink, stderr, nsqLogger,
          mu, goroutines, proc, lastOp>>

----------------------------------------------------------------------------
(* Bounds of the model.                                                    *)

MaxInits == 3
\* Entry objects on the heap of a specification of chains
MaxEntries == 3
\* Entry objects the main goroutine builds before it emits or spawns
MaxShared == 2
\* records in the sink, lines on stderr
MaxRecords == 1
\* bytes of an event string, of a field value, of what follows an NSQ tag
MaxEventLen == 4
MaxValueLen == 2
MaxRestLen == 1
NumGoroutines == 2

----------------------------------------------------------------------------
(* Strings as byte sequences.                                              *)

\* unicode.IsSpace on the bytes the inputs use (strings.TrimSpace trims them)
IsSpace(c) == c \in {" ", "\t", "\n", "\r"}

RECURSIVE TrimLeft(_)
TrimLeft(s) ==
    IF s # <<>> /\ IsSpace(Head(s)) THEN TrimLeft(Tail(s)) ELSE s

RECURSIVE TrimRight(_)
TrimRight(s) ==
    IF s # <<>> /\ IsSpace(s[Len(s)])
    THEN TrimRight(SubSeq(s, 1, Len(s) - 1))
    ELSE s

\* strings.TrimSpace
TrimSpace(s) == TrimRight(TrimLeft(s))

\* strings.Split(s, sep) for a one-byte sep: always at least one part
RECURSIVE Split(_, _)
Split(s, sep) ==
    IF \E i \in 1..Len(s) : s[i] = sep
    THEN LET i == CHOOSE j \in 1..Len(s) :
                      s[j] = sep /\ \A k \in 1..(j - 1) : s[k] # sep
         IN  <<SubSeq(s, 1, i - 1)>> \o Split(SubSeq(s, i + 1, Len(s)), sep)
    ELSE <<s>>

\* All byte sequences over alphabet of length at most n
StringsUpTo(alphabet, n) == UNION {[1..k -> alphabet] : k \in 0..n}

----------------------------------------------------------------------------
(* strconv.Atoi on a 64-bit int, with the value as decimal text.           *)

Digits == <<"0", "1", "2", "3", "4", "5", "6", "7", "8", "9">>

IsDigit(c) == \E i \in 1..Len(Digits) : Digits[i] = c

DigitValue(c) == (CHOOSE i \in 1..Len(Digits) : Digits[i] = c) - 1

RECURSIVE StripZeros(_)
StripZeros(ds) ==
    IF Len(ds) > 1 /\ Head(ds) = "0" THEN StripZeros(Tail(ds)) ELSE ds

\* a < b for two digit strings without leading zeros
RECURSIVE LexLess(_, _)
LexLess(a, b) ==
    IF a = <<>> THEN FALSE
    ELSE IF Head(a) # Head(b) THEN DigitValue(Head(a)) < DigitValue(Head(b))
    ELSE LexLess(Tail(a), Tail(b))

MagLess(a, b) == Len(a) < Len(b) \/ (Len(a) = Len(b) /\ LexLess(a, b))

\* math.MaxInt64 = 9223372036854775807, and the magnitude of math.MinInt64
MaxInt64Text ==
    <<"9","2","2","3","3","7","2","0","3","6","8","5","4","7","7","5","8","0","7">>
MinInt64Mag ==
    <<"9","2","2","3","3","7","2","0","3","6","8","5","4","7","7","5","8","0","8">>

\* strconv.Atoi: [text |-> the int returned, err |-> "nil"|"ErrSyntax"|"ErrRange"].
\* A syntax error returns 0; a range error returns the nearest bound of int.
Atoi(s) ==
    LET signed == s # <<>> /\ Head(s) \in {"+", "-"}
        neg    == s # <<>> /\ Head(s) = "-"
        body   == IF signed THEN Tail(s) ELSE s
    IN  IF body = <<>> \/ \E i \in 1..Len(body) : ~IsDigit(body[i])
        THEN [text |-> <<"0">>, err |-> "ErrSyntax"]
        ELSE LET mag == StripZeros(body)
             IN  IF ~neg /\ MagLess(MaxInt64Text, mag)
                 THEN [text |-> MaxInt64Text, err |-> "ErrRange"]
                 ELSE IF neg /\ MagLess(MinInt64Mag, mag)
                 THEN [text |-> <<"-">> \o MinInt64Mag, err |-> "ErrRange"]
                 ELSE [text |-> IF neg /\ mag # <<"0">>
                                THEN <<"-">> \o mag ELSE mag,
                       err  |-> "nil"]

----------------------------------------------------------------------------
(* Field values and field sets (logrus.Fields: map[string]interface{}).     *)

StringValue(s) == [kind |-> "string", text |-> s]
IntValue(t)    == [kind |-> "int", text |-> t]
Uint64Value(t) == [kind |-> "uint64", text |-> t]
\* an error value, as the chain of its dynamic types, outermost first
ErrorValue(ch) == [kind |-> "error", text |-> ch]

EmptyFields == [k \in {} |-> StringValue(<<>>)]

\* data[k] = v on a copy of the map
SetField(data, k, v) == (k :> v) @@ data

HasField(data, k) == k \in DOMAIN data

----------------------------------------------------------------------------
(* Severities.  logrus.Level counts down from the most verbose: a record   *)
(* at level l passes a logger at Level L when L >= l.                      *)

PanicLevel == 0
FatalLevel == 1
ErrorLevel == 2
WarnLevel  == 3
InfoLevel  == 4
DebugLevel == 5
\* a Level none of the switch cases names (logrus.TraceLevel)
TraceLevel == 6

Levels == {PanicLevel, FatalLevel, ErrorLevel, WarnLevel, InfoLevel,
           DebugLevel, TraceLevel}

\* the LogLevel strings configurations are drawn from
LevelStrings == {"", "ERROR", "WARNING", "INFO", "DEBUG", "debug", "Error",
                 "ashtashtnn212rn2h1h12hxxz"}

\* getLogrusLogLevel with a fault: the lookup folds case
getLogrusLogLevelFoldCase(level) ==
    CASE level \in {"ERROR", "Error"} -> ErrorLevel
      [] level = "WARNING" -> WarnLevel
      [] level = "INFO"    -> InfoLevel
      [] level \in {"DEBUG", "debug"} -> DebugLevel
      [] OTHER -> InfoLevel

getLogrusLogLevel(level) ==
    LET lookup == [s \in {"ERROR", "WARNING", "INFO", "DEBUG"} |->
                      CASE s = "ERROR"   -> ErrorLevel
                        [] s = "WARNING" -> WarnLevel
                        [] s = "INFO"    -> InfoLevel
                        [] s = "DEBUG"   -> DebugLevel]
        ok     == level \in DOMAIN lookup
    IN  IF ~ok THEN InfoLevel ELSE lookup[level]

\* go-nsq's LogLevel.String()
NSQLevelString(lvl) ==
    CASE lvl = "LogLevelInfo"    -> <<"I", "N", "F">>
      [] lvl = "LogLevelWarning" -> <<"W", "R", "N">>
      [] lvl = "LogLevelError"   -> <<"E", "R", "R">>
      [] OTHER                   -> <<"D", "B", "G">>

nsqDebugLevel == NSQLevelString("LogLevelDebug")
nsqInfoLevel  == NSQLevelString("LogLevelInfo")
nsqWarnLevel  == NSQLevelString("LogLevelWarning")
nsqErrLevel   == NSQLevelString("LogLevelError")

\* getNSQLogLevel with a fault: the Fatal and Panic cases are missing
getNSQLogLevelNoFatal(l) ==
    CASE l.Level = DebugLevel -> "LogLevelDebug"
      [] l.Level = InfoLevel  -> "LogLevelInfo"
      [] l.Level = WarnLevel  -> "LogLevelWarning"
      [] l.Level = ErrorLevel -> "LogLevelError"
      [] OTHER                -> "LogLevelInfo"

getNSQLogLevel(l) ==
    CASE l.Level = DebugLevel -> "LogLevelDebug"
      [] l.Level = InfoLevel  -> "LogLevelInfo"
      [] l.Level = WarnLevel  -> "LogLevelWarning"
      [] l.Level = ErrorLevel -> "LogLevelError"
      [] l.Level = FatalLevel -> "LogLevelError"
      [] l.Level = PanicLevel -> "LogLevelError"
      [] OTHER                -> "LogLevelInfo"

----------------------------------------------------------------------------
(* Loggers and Init.                                                       *)

NoLogger == [id |-> 0, Level |-> InfoLevel, hooks |-> {}]

Unconfigured == [configured |-> FALSE]

\* LoggingConfig values; LoggingConfig{} is the one TestMain passes
Configs ==
    [LogLevel : LevelStrings,
     Environment : {""},
     AppVersion : {""},
     BugsnagAPIKey : {"", "key"},
     BugsnagNotifyReleaseStages : {<<>>},
     BugsnagProjectPackages : {<<>>},
     BugsnagProjectPaths : {<<>>},
     BugsnagPackageRoot : {""}]

ZeroConfig ==
    [LogLevel |-> "", Environment |-> "", AppVersion |-> "",
     BugsnagAPIKey |-> "", BugsnagNotifyReleaseStages |-> <<>>,
     BugsnagProjectPackages |-> <<>>, BugsnagProjectPaths |-> <<>>,
     BugsnagPackageRoot |-> ""]

DebugConfig == [ZeroConfig EXCEPT !.LogLevel = "DEBUG"]

\* new(withBugsnag, config); id is the address of the logger allocated
new(withBugsnag, config, id) ==
    [id    |-> id,
     Level |-> getLogrusLogLevel(config.LogLevel),
     hooks |-> IF withBugsnag THEN {"bugsnagHook"} ELSE {}]

\* what bugsnag.Configure and bugsnag.OnBeforeNotify leave in the client
Configured(config, logger, callbacks) ==
    [configured          |-> TRUE,
     APIKey              |-> config.BugsnagAPIKey,
     ReleaseStage        |-> config.Environment,
     AppVersion          |-> config.AppVersion,
     NotifyReleaseStages |-> config.BugsnagNotifyReleaseStages,
     ProjectPackages     |-> config.BugsnagProjectPackages,
     ProjectPaths        |-> config.BugsnagProjectPaths,
     PackageRoot         |-> config.BugsnagPackageRoot,
     Logger              |-> logger,
     beforeNotify        |-> callbacks]

BeforeNotifyCount == IF bugsnagClient.configured
                     THEN bugsnagClient.beforeNotify ELSE 0

\* Init with a fault: no nil guard, every call configures and replaces Log
InitCallNoGuard(config) ==
    /\ proc = "running"
    /\ Len(initCalls) < MaxInits
    /\ LET n == 2 * Len(initCalls) IN
        /\ bugsnagClient' = Configured(config, new(FALSE, config, n + 1),
                                       BeforeNotifyCount + 1)
        /\ Log' = new(TRUE, config, n + 2)
        /\ lastOp' = [op |-> "Init", config |-> config, created |-> TRUE]
    /\ initCalls' = Append(initCalls, config)
    /\ UNCHANGED <<entries, sink, stderr, nsqLogger, mu, goroutines, proc>>

\* Init(config)
InitCall(config) ==
    /\ proc = "running"
    /\ Len(initCalls) < MaxInits
    /\ LET n == 2 * Len(initCalls) IN
       IF Log = NoLogger
       THEN /\ bugsnagClient' =
                   Configured(config, new(FALSE, config, n + 1),
                              BeforeNotifyCount + 1)
            /\ Log' = new(TRUE, config, n + 2)
            /\ lastOp' = [op |-> "Init", config |-> config, created |-> TRUE]
       ELSE /\ UNCHANGED <<Log, bugsnagClient>>
            /\ lastOp' = [op |-> "Init", config |-> config, created |-> FALSE]
    /\ initCalls' = Append(initCalls, config)
    /\ UNCHANGED <<entries, sink, stderr, nsqLogger, mu, goroutines, proc>>

\* Log.Level = l, as the package's tests set it between calls
SetLevel(l) ==
    /\ proc = "running"
    /\ Log # NoLogger
    /\ Log.Level # l
    /\ \A g \in DOMAIN goroutines : goroutines[g].pc \in {"idle", "done"}
    /\ Log' = [Log EXCEPT !.Level = l]
    /\ lastOp' = [op |-> "SetLevel", level |-> l]
    /\ UNCHANGED <<bugsnagClient, initCalls, entries, sink, stderr, nsqLogger,
                   mu, goroutines, proc>>

----------------------------------------------------------------------------
(* Entries.  An Entry is [data, parent, keys]: its field set, and for the  *)
(* record of where it came from the Entry it was derived from (0: none)    *)
(* and the keys the deriving call set.  A With* call is a function from the*)
(* heap and the receiver's address to the new heap and the address         *)
(* returned.                                                               *)

Allocated(heap, e) == e \in 1..Len(heap)

\* Entry.WithField with a fault: the field is set in the receiver's own map,
\* which the Entry returned shares
WithFieldInPlace(heap, e, field, value) ==
    LET data == SetField(heap[e].data, field, value)
    IN  [heap |-> Append([heap EXCEPT ![e].data = data],
                         [data |-> data, parent |-> e, keys |-> {field}]),
         ret  |-> Len(heap) + 1]

\* (e *Entry) WithField: logrus copies e.Data into a new map, sets the field
\* there and returns a new Entry holding it
WithField(heap, e, field, value) ==
    [heap |-> Append(heap, [data   |-> SetField(heap[e].data, field, value),
                            parent |-> e,
                            keys   |-> {field}]),
     ret  |-> Len(heap) + 1]

\* WithStringFieldIgnoreEmpty with a fault: the value is not trimmed
WithStringFieldIgnoreEmptyNoTrim(heap, e, field, value) ==
    IF Len(value) > 0
    THEN WithField(heap, e, field, StringValue(value))
    ELSE [heap |-> heap, ret |-> e]

WithStringFieldIgnoreEmpty(heap, e, field, value) ==
    IF Len(TrimSpace(value)) > 0
    THEN WithField(heap, e, field, StringValue(value))
    ELSE [heap |-> heap, ret |-> e]

WithUser(heap, e, userID) == WithField(heap, e, "user_id", Uint64Value(userID))

WithChannel(heap, e, channel) ==
    WithField(heap, e, "channel", StringValue(channel))

\* logrus Entry.WithError: WithField(logrus.ErrorKey, err)
WithError(heap, e, err) == WithField(heap, e, "error", ErrorValue(err))

WithEvent(heap, e, event) ==
    LET split     == Split(event, ",")
        eventName == split[1]
    IN  IF Len(split) = 2
        THEN LET objectID == Atoi(split[2]).text
                 r1 == WithStringFieldIgnoreEmpty(heap, e, "event_name",
                                                  eventName)
             IN  WithField(r1.heap, r1.ret, "object_id", IntValue(objectID))
        ELSE IF Len(split) = 3
        THEN LET objectID  == Atoi(split[2]).text
                 subjectID == Atoi(split[3]).text
                 r1 == WithStringFieldIgnoreEmpty(heap, e, "event_name",
                                                  eventName)
                 r2 == WithField(r1.heap, r1.ret, "object_id",
                                 IntValue(objectID))
             IN  WithField(r2.heap, r2.ret, "subject_id", IntValue(subjectID))
        ELSE WithStringFieldIgnoreEmpty(heap, e, "event", event)

WithRelation(heap, e, relation) ==
    WithStringFieldIgnoreEmpty(heap, e, "relation", relation)

\* fmt.Sprintf("%s", id) of a [16]byte MessageID: its sixteen bytes
WithNSQMessageID(heap, e, id) ==
    WithStringFieldIgnoreEmpty(heap, e, "nsq_message_id", id)

WithRutilus(heap, e) ==
    WithField(heap, e, "service", StringValue(<<"r","u","t","i","l","u","s">>))

WithHTTPMethod(heap, e, method) ==
    WithField(heap, e, "http_method", StringValue(method))

\* code is the decimal text strconv.Itoa gives
WithHTTPResponseCode(heap, e, code) ==
    WithField(heap, e, "http_response_code", StringValue(code))

WithFCM(heap, e) == WithChannel(heap, e, <<"f", "c", "m">>)

WithNotificationlist(heap, e) ==
    WithChannel(heap, e, <<"n","o","t","i","f","i","c","a","t","i","o","n",
                           "l","i","s","t">>)

\* tracer.SpanFromContext(ctx) found no span
NoSpan == [ok |-> FALSE, TraceID |-> <<"0">>, SpanID |-> <<"0">>]

\* with a span in the context, logrus WithFields sets both ids on a copy
WithDDTrace(heap, e, span) ==
    IF span.ok
    THEN [heap |-> Append(heap,
               [data   |-> SetField(SetField(heap[e].data, "dd.trace_id",
                                             Uint64Value(span.TraceID)),
                                    "dd.span_id", Uint64Value(span.SpanID)),
                parent |-> e,
                keys   |-> {"dd.trace_id", "dd.span_id"}]),
          ret  |-> Len(heap) + 1]
    ELSE [heap |-> heap, ret |-> e]

----------------------------------------------------------------------------
(* Durations.  A time.Duration is an int64 count of nanoseconds; it is     *)
(* kept as sign, whole milliseconds (decimal text) and the nanoseconds     *)
(* left over (0..999999), so that d = +-(ms * 1000000 + ns) is exact over  *)
(* the whole int64 range.                                                  *)

\* time.Millisecond, in nanoseconds
Millisecond == 1000000

Int64Value(t) == [kind |-> "int64", text |-> t]

RECURSIVE ToInt(_)
ToInt(ds) == IF ds = <<>> THEN 0
             ELSE (10 * ToInt(SubSeq(ds, 1, Len(ds) - 1)))
                      + DigitValue(ds[Len(ds)])

\* ds + 1 for a digit string
RECURSIVE Incr(_)
Incr(ds) ==
    IF ds = <<>> THEN <<"1">>
    ELSE LET last == DigitValue(ds[Len(ds)])
             init == SubSeq(ds, 1, Len(ds) - 1)
         IN  IF last < 9 THEN Append(init, Digits[last + 2])
             ELSE Append(Incr(init), "0")

\* the six digits of a count of nanoseconds below a millisecond
SixDigits(n) ==
    <<Digits[((n \div 100000) % 10) + 1], Digits[((n \div 10000) % 10) + 1],
      Digits[((n \div 1000) % 10) + 1], Digits[((n \div 100) % 10) + 1],
      Digits[((n \div 10) % 10) + 1], Digits[(n % 10) + 1]>>

\* the whole milliseconds and the rest of math.MaxInt64 and math.MinInt64
MaxMs == SubSeq(MaxInt64Text, 1, Len(MaxInt64Text) - 6)
maxDuration == [neg |-> FALSE, ms |-> MaxMs,
                ns |-> ToInt(SubSeq(MaxInt64Text, Len(MaxInt64Text) - 5,
                                    Len(MaxInt64Text)))]
minDuration == [neg |-> TRUE, ms |-> MaxMs,
                ns |-> ToInt(SubSeq(MinInt64Mag, Len(MinInt64Mag) - 5,
                                    Len(MinInt64Mag)))]

\* d is an int64
InRange(d) ==
    \/ MagLess(d.ms, MaxMs)
    \/ d.ms = MaxMs /\ d.ns <= (IF d.neg THEN minDuration.ns ELSE maxDuration.ns)

\* time's lessThanHalf(x, y): x + x < y
lessThanHalf(x, y) == x + x < y

\* d.Round with a fault: the rest is dropped, never rounded up
RoundDown(d) ==
    IF d.ms = <<"0">> THEN [neg |-> FALSE, ms |-> d.ms, ns |-> 0]
    ELSE [neg |-> d.neg, ms |-> d.ms, ns |-> 0]

\* d.Round(time.Millisecond): r = d % m; below half the multiple toward
\* zero, else the one away from zero, d1 = d + m - r (d - m + r for d < 0);
\* when d1 wraps around int64 the test d1 > d (d1 < d) fails and Round
\* returns maxDuration (minDuration)
Round(d) ==
    LET r  == d.ns
        d1 == [neg |-> d.neg, ms |-> Incr(d.ms), ns |-> 0]
    IN  IF lessThanHalf(r, Millisecond)
        THEN IF d.ms = <<"0">> THEN [neg |-> FALSE, ms |-> d.ms, ns |-> 0]
             ELSE [neg |-> d.neg, ms |-> d.ms, ns |-> 0]
        ELSE IF InRange(d1) THEN d1
        ELSE IF d.neg THEN minDuration ELSE maxDuration

\* d.Nanoseconds() / 1000000: int64 division, truncated toward zero
Milliseconds(d) ==
    IF d.neg /\ d.ms # <<"0">> THEN <<"-">> \o d.ms ELSE d.ms

\* d.Nanoseconds()
Nanoseconds(d) ==
    LET mag == StripZeros(d.ms \o SixDigits(d.ns))
    IN  IF d.neg /\ mag # <<"0">> THEN <<"-">> \o mag ELSE mag

\* WithDuration as lines 176-179 have it
WithDuration(heap, e, d) ==
    WithField(heap, e, "duration_ms", Int64Value(Milliseconds(Round(d))))

\* WithDuration as lines 500-504 have it
WithDurationNSQ(heap, e, d) ==
    LET r1 == WithField(heap, e, "duration_ms",
                        Int64Value(Milliseconds(Round(d))))
    IN  WithField(r1.heap, r1.ret, "nsq_message_process_duration",
                  Int64Value(Nanoseconds(d)))

WithE2EDuration(heap, e, d) ==
    WithField(heap, e, "e2e_duration_ms", Int64Value(Milliseconds(Round(d))))

\* durations: around zero, around the documentation's 1.5 s, and at both
\* ends of int64
Durations ==
    {d \in [neg : BOOLEAN,
            ms  : {<<"0">>, <<"1">>, <<"1","4","9","9">>, <<"1","5","0","0">>,
                   <<"9","2","2","3","3","7","2","0","3","6","8","5","3">>,
                   MaxMs},
            ns  : {0, 1, 499999, 500000, 500001, 999999,
                   maxDuration.ns, minDuration.ns}] :
        InRange(d) /\ ~(d.neg /\ d.ms = <<"0">> /\ d.ns = 0)}

----------------------------------------------------------------------------
\* (l *Logger) NewEntry
NewEntry(heap) ==
    [heap |-> Append(heap, [data |-> EmptyFields, parent |-> 0, keys |-> {}]),
     ret  |-> Len(heap) + 1]

----------------------------------------------------------------------------
(* Inputs of the With* calls.                                              *)

UserIDs  == {<<"1", "0">>}
Channels == {<<"f", "c", "m">>}
\* errors by dynamic type: errors.New(..), fmt.Errorf("..: %w", errors.New(..))
PlainError   == <<"*errors.errorString">>
WrappedError == <<"*fmt.wrapError", "*errors.errorString">>
Errors == {PlainError, WrappedError}
Messages == {<<>>, <<"m">>}
Relations == {<<>>, <<"r">>}
MessageIDs == {[i \in 1..16 |-> "0"], [i \in 1..16 |-> " "]}
Methods == {<<"G", "E", "T">>}
Codes == {<<"2", "0", "0">>}
Spans == {NoSpan, [ok |-> TRUE, TraceID |-> <<"7">>, SpanID |-> <<"8">>]}
FieldNames == {"nsq"}
Values == StringsUpTo({"a", " ", "\t"}, MaxValueLen)

\* event strings: every short string over a small alphabet, the examples
\* of the documentation, signs and leading zeros, and the ends of int's range
EventSamples ==
    {<<"p","u","r","c","h","a","s","e",",","4","2">>,
     <<"p","u","r","c","h","a","s","e",",","4","2",",","7">>,
     <<"n","o","t","-","a","-","n","u","m","b","e","r","-","h","e","r","e">>,
     <<"a",",","b",",","c",",","d">>,
     <<"a",",","-","4","2",",","+","0","0","7">>,
     <<"a", ",">> \o MaxInt64Text,
     <<"a", ",", "-">> \o MinInt64Mag,
     <<"a", ",">> \o MinInt64Mag,
     <<"a", ",", "-">> \o MaxInt64Text \o <<"0">>}
Events == StringsUpTo({"a", ",", "7", " "}, MaxEventLen) \cup EventSamples

----------------------------------------------------------------------------
(* The error-reporting hook.                                               *)

\* reflect.TypeOf(err).String()
TypeOf(err) == Head(err)

\* errors.Unwrap: the error a *fmt.wrapError wraps, nil (<<>>) for any other
Unwrap(err) == IF Head(err) = "*fmt.wrapError" THEN Tail(err) ELSE <<>>

\* fmt.Errorf("%s: %w", message, err)
ErrorfWrap(err) == <<"*fmt.wrapError">> \o err

\* fmt.Errorf("%s", message): no %w, so errors.New
ErrorfPlain == <<"*errors.errorString">>

\* the count at which the callback starts logging "Failed to unwrap error"
UnwrapLogCount == 11

\* The loop of the callback Init registers with bugsnag.OnBeforeNotify.
\* Every iteration unwraps event.Error.Err itself, so from the second
\* iteration on errClass is the same; the branch at count >= 11 logs and
\* does not break, so a loop that gets there never ends.
RECURSIVE unwrapLoop(_, _, _)
unwrapLoop(err, errClass, count) ==
    IF errClass # "*fmt.wrapError"
    THEN [returns |-> TRUE, ErrorClass |-> errClass]
    ELSE LET wrappedError == Unwrap(err)
         IN  IF wrappedError = <<>>
             THEN [returns |-> TRUE, ErrorClass |-> errClass]
             ELSE IF count + 1 >= UnwrapLogCount
             THEN [returns |-> FALSE, ErrorClass |-> errClass]
             ELSE unwrapLoop(err, TypeOf(wrappedError), count + 1)

\* the before-notify callback on an event whose Error.Err is err
beforeNotify(err) == unwrapLoop(err, TypeOf(err), 0)

\* bugsnag.Notify(errWithStack, metadata): the registered callbacks run in
\* the caller's goroutine, then the event is delivered; deliver is what
\* the delivery returns ("nil" or "deliveryError")
BugsnagNotify(err, metadata, deliver) ==
    LET cb == IF BeforeNotifyCount > 0
              THEN beforeNotify(err)
              ELSE [returns |-> TRUE, ErrorClass |-> TypeOf(err)]
    IN  [returns |-> cb.returns,
         err     |-> IF cb.returns THEN deliver ELSE "nil"]

\* bugsnagHook.Fire with a fault: the client's error is dropped
bugsnagHookFireDropsError(data, message, deliver) ==
    LET ok == HasField(data, "error") /\ data["error"].kind = "error"
        notifyErr == IF ok
                     THEN IF message # <<>>
                          THEN ErrorfWrap(data["error"].text)
                          ELSE data["error"].text
                     ELSE ErrorfPlain
        metadata == [k \in DOMAIN data \ {"error"} |-> data[k]]
        bugsnagErr == BugsnagNotify(notifyErr, metadata, deliver)
    IN  [returns |-> bugsnagErr.returns, err |-> "nil"]

\* (b *bugsnagHook) Fire(entry)
bugsnagHookFire(data, message, deliver) ==
    LET ok == HasField(data, "error") /\ data["error"].kind = "error"
        notifyErr == IF ok
                     THEN IF message # <<>>
                          THEN ErrorfWrap(data["error"].text)
                          ELSE data["error"].text
                     ELSE ErrorfPlain
        metadata == [k \in DOMAIN data \ {"error"} |-> data[k]]
        bugsnagErr == BugsnagNotify(notifyErr, metadata, deliver)
    IN  IF bugsnagErr.err # "nil"
        THEN [returns |-> bugsnagErr.returns, err |-> bugsnagErr.err]
        ELSE [returns |-> bugsnagErr.returns, err |-> "nil"]

\* (b *bugsnagHook) Levels()
bugsnagHookLevels == {ErrorLevel, FatalLevel, PanicLevel}

----------------------------------------------------------------------------
(* Emitting a record: logrus Entry.Log and Entry.log.                      *)

\* logrus Logger.IsLevelEnabled, on the Level new() set
IsLevelEnabled(logger, level) == logger.Level >= level

\* logrus LevelHooks.Fire for the hooks new() added
HooksFire(logger, level, data, message, deliver) ==
    IF "bugsnagHook" \in logger.hooks /\ level \in bugsnagHookLevels
    THEN LET r == bugsnagHookFire(data, message, deliver)
         IN  [fired |-> TRUE, returns |-> r.returns, err |-> r.err]
    ELSE [fired |-> FALSE, returns |-> TRUE, err |-> "nil"]

\* the JSONFormatter new() installs: the fields, the level and the message
\* under the key "message" (the timestamp is left out)
Format(data, level, message) ==
    [fields |-> data, level |-> level, message |-> message]

\* the bytes of one record, as the two segments a writer may take them in
Serialise(record) ==
    <<[record |-> record, seg |-> "head"], [record |-> record, seg |-> "tail"]>>

\* the line logrus prints when a hook returns an error
HookFailure(err) == <<"Failed to fire hook", err>>

\* Entry.Log(level, message) run to its end on the calling goroutine:
\* the level filter, then the hooks, then the formatted record written
\* through Log.Out.  A hook that never returns leaves the call hung before
\* the write.
EntryLog(data, level, message, deliver) ==
    LET enabled == IsLevelEnabled(Log, level)
        hook    == IF enabled
                   THEN HooksFire(Log, level, data, message, deliver)
                   ELSE [fired |-> FALSE, returns |-> TRUE, err |-> "nil"]
        written == enabled /\ hook.returns
    IN  [enabled |-> enabled,
         fired   |-> hook.fired,
         hookErr |-> hook.err,
         deliver |-> IF hook.fired /\ hook.returns THEN deliver ELSE "nil",
         returns |-> hook.returns,
         sink    |-> IF written
                     THEN sink \o Serialise(Format(data, level, message))
                     ELSE sink,
         stderr  |-> IF hook.returns /\ hook.err # "nil"
                     THEN Append(stderr, HookFailure(hook.err))
                     ELSE stderr]

\* the mutex held by the main goroutine (goroutine 0)
MainHolds == {0}

EntryData(e) == IF e = 0 THEN EmptyFields ELSE entries[e].data

Room == Len(sink) < 2 * MaxRecords /\ Len(stderr) < MaxRecords

\* e.Debug/Info/Warning/Error/Fatal/Panic(message) on the main goroutine;
\* e = 0 is the same call on Log itself, which logs from a fresh Entry.
\* None of these methods returns a value.
Emit(e, level, message, deliver) ==
    /\ proc = "running"
    /\ Log # NoLogger
    /\ mu = {}
    /\ e = 0 \/ Allocated(entries, e)
    /\ Room
    /\ LET r == EntryLog(EntryData(e), level, message, deliver) IN
        /\ sink' = r.sink
        /\ stderr' = r.stderr
        /\ mu' = IF r.returns THEN mu ELSE MainHolds
        /\ proc' = IF ~r.returns THEN "hung"
                   ELSE IF level = FatalLevel THEN "exited"
                   ELSE IF level = PanicLevel THEN "panicked"
                   ELSE "running"
        /\ lastOp' = [op |-> "Emit", e |-> e, level |-> level,
                      message |-> message, fired |-> r.fired,
                      hookErr |-> r.hookErr, deliver |-> r.deliver,
                      returned |-> r.returns
                                     /\ level \notin {FatalLevel, PanicLevel},
                      ret |-> "nothing",
                      sinkBefore |-> sink, stderrBefore |-> stderr]
    /\ UNCHANGED <<Log, bugsnagClient, initCalls, entries, nsqLogger,
                   goroutines>>

----------------------------------------------------------------------------
(* The With* calls and NewEntry on the main goroutine.                     *)

\* a call that returned r: the heap it left and the address it returned
Derive(op, e, arg, r) ==
    /\ entries' = r.heap
    /\ lastOp' = [op |-> op, e |-> e, arg |-> arg, ret |-> r.ret,
                  heapBefore |-> entries]
    /\ UNCHANGED <<Log, bugsnagClient, initCalls, sink, stderr, nsqLogger,
                   mu, goroutines, proc>>

CanDerive(e) ==
    /\ proc = "running"
    /\ Log # NoLogger
    /\ Allocated(entries, e)

NewEntryCall ==
    /\ proc = "running"
    /\ Log # NoLogger
    /\ Derive("NewEntry", 0, <<>>, NewEntry(entries))

WithUserCall(e, userID) ==
    /\ CanDerive(e)
    /\ Derive("WithUser", e, userID, WithUser(entries, e, userID))

WithChannelCall(e, channel) ==
    /\ CanDerive(e)
    /\ Derive("WithChannel", e, channel, WithChannel(entries, e, channel))

WithErrorCall(e, err) ==
    /\ CanDerive(e)
    /\ Derive("WithError", e, err, WithError(entries, e, err))

WithStringFieldIgnoreEmptyCall(e, field, value) ==
    /\ CanDerive(e)
    /\ Derive("WithStringFieldIgnoreEmpty", e, <<field, value>>,
              WithStringFieldIgnoreEmpty(entries, e, field, value))

WithEventCall(e, event) ==
    /\ CanDerive(e)
    /\ Derive("WithEvent", e, event, WithEvent(entries, e, event))

WithRelationCall(e, relation) ==
    /\ CanDerive(e)
    /\ Derive("WithRelation", e, relation, WithRelation(entries, e, relation))

WithNSQMessageIDCall(e, id) ==
    /\ CanDerive(e)
    /\ Derive("WithNSQMessageID", e, id, WithNSQMessageID(entries, e, id))

WithRutilusCall(e) ==
    /\ CanDerive(e)
    /\ Derive("WithRutilus", e, <<>>, WithRutilus(entries, e))

WithHTTPMethodCall(e, method) ==
    /\ CanDerive(e)
    /\ Derive("WithHTTPMethod", e, method, WithHTTPMethod(entries, e, method))

WithHTTPResponseCodeCall(e, code) ==
    /\ CanDerive(e)
    /\ Derive("WithHTTPResponseCode", e, code,
              WithHTTPResponseCode(entries, e, code))

WithFCMCall(e) ==
    /\ CanDerive(e)
    /\ Derive("WithFCM", e, <<>>, WithFCM(entries, e))

WithNotificationlistCall(e) ==
    /\ CanDerive(e)
    /\ Derive("WithNotificationlist", e, <<>>, WithNotificationlist(entries, e))

WithDDTraceCall(e, span) ==
    /\ CanDerive(e)
    /\ Derive("WithDDTrace", e, span, WithDDTrace(entries, e, span))

WithDurationCall(e, d) ==
    /\ CanDerive(e)
    /\ Derive("WithDuration", e, d, WithDuration(entries, e, d))

WithDurationNSQCall(e, d) ==
    /\ CanDerive(e)
    /\ Derive("WithDurationNSQ", e, d, WithDurationNSQ(entries, e, d))

WithE2EDurationCall(e, d) ==
    /\ CanDerive(e)
    /\ Derive("WithE2EDuration", e, d, WithE2EDuration(entries, e, d))

----------------------------------------------------------------------------
(* The NSQ adapter.                                                        *)

NoAdapter == [entry |-> 0, level |-> ""]

\* (l *Logger) NSQLogger: the adapter over a new Entry and the mapped level
NSQLogger(heap, l) ==
    LET r1 == NewEntry(heap)
        r2 == WithField(r1.heap, r1.ret, "component",
                        StringValue(<<"n", "s", "q">>))
    IN  [heap |-> r2.heap, ret |-> [entry |-> r2.ret, level |-> getNSQLogLevel(l)]]

NSQLoggerCall ==
    /\ proc = "running"
    /\ Log # NoLogger
    /\ LET r == NSQLogger(entries, Log) IN
        /\ entries' = r.heap
        /\ nsqLogger' = r.ret
        /\ lastOp' = [op |-> "NSQLogger", ret |-> r.ret]
    /\ UNCHANGED <<Log, bugsnagClient, initCalls, sink, stderr, mu,
                   goroutines, proc>>

\* Output with a fault: a three-byte message is decoded too
OutputDecodeFromThree(s) ==
    IF Len(s) >= 3
    THEN LET msg == TrimSpace(SubSeq(s, 4, Len(s)))
             tag == SubSeq(s, 1, 3)
         IN  <<[level   |-> CASE tag = nsqDebugLevel -> DebugLevel
                              [] tag = nsqInfoLevel  -> InfoLevel
                              [] tag = nsqWarnLevel  -> WarnLevel
                              [] tag = nsqErrLevel   -> ErrorLevel
                              [] OTHER               -> InfoLevel,
                 message |-> msg]>>
    ELSE <<>>

\* (n NSQLogger) Output: the emissions it makes for s, in order
OutputDecode(s) ==
    IF Len(s) > 3
    THEN LET msg == TrimSpace(SubSeq(s, 4, Len(s)))
             tag == SubSeq(s, 1, 3)
         IN  <<[level   |-> CASE tag = nsqDebugLevel -> DebugLevel
                              [] tag = nsqInfoLevel  -> InfoLevel
                              [] tag = nsqWarnLevel  -> WarnLevel
                              [] tag = nsqErrLevel   -> ErrorLevel
                              [] OTHER               -> InfoLevel,
                 message |-> msg]>>
    ELSE <<>>

\* n.Output(callDepth, s) on the adapter NSQLogger() returned
Output(s, deliver) ==
    /\ proc = "running"
    /\ Log # NoLogger
    /\ nsqLogger # NoAdapter
    /\ mu = {}
    /\ Room
    /\ LET calls == OutputDecode(s) IN
       IF calls = <<>>
       THEN /\ UNCHANGED <<sink, stderr, proc, mu>>
            /\ lastOp' = [op |-> "Output", s |-> s, emissions |-> <<>>,
                          ret |-> "nil", returned |-> TRUE,
                          sinkBefore |-> sink]
       ELSE LET c == calls[1]
                r == EntryLog(EntryData(nsqLogger.entry), c.level, c.message,
                              deliver)
            IN  /\ sink' = r.sink
                /\ stderr' = r.stderr
                /\ proc' = IF r.returns THEN "running" ELSE "hung"
                /\ mu' = IF r.returns THEN mu ELSE MainHolds
                /\ lastOp' = [op |-> "Output", s |-> s,
                              emissions |-> <<[e |-> nsqLogger.entry,
                                               level |-> c.level,
                                               message |-> c.message]>>,
                              ret |-> "nil", returned |-> r.returns,
                              sinkBefore |-> sink]
    /\ UNCHANGED <<Log, bugsnagClient, initCalls, entries, nsqLogger,
                   goroutines>>

\* inputs of Output: a three-byte tag, or the start of one, and a rest
Tags == {nsqDebugLevel, nsqInfoLevel, nsqWarnLevel, nsqErrLevel,
         <<"i", "n", "f">>, <<"D", "B", "X">>}
OutputSamples == {<<"D", "B", "G", " ", "a">>,
                  <<"E", "R", "R", " ", "a", " ", "b", " ", "\t">>,
                  <<"W", "R", "N", "\t", " ">>}
OutputInputs ==
    {t \o r : t \in Tags, r \in StringsUpTo({"a", " "}, MaxRestLen)}
        \cup {SubSeq(t, 1, n) : t \in Tags, n \in 0..2}
        \cup OutputSamples

----------------------------------------------------------------------------
(* Goroutines.  Each runs one chain, recv.WithChannel(c).Level(message)    *)
(* or recv.Level(message) (recv = 0: Log itself), as the package's         *)
(* TestConcurrentUseOfEntry does.  Entry.log takes the logger's mutex to   *)
(* fire the hooks and again to format and write; the write of a record     *)
(* goes through Log.Out segment by segment.                                *)

Idle == [pc |-> "idle", e |-> 0, level |-> InfoLevel, message |-> <<>>,
         buf |-> <<>>]

\* the message of goroutine g: "t1", "t2", ...
GoMessage(g) == <<"t", Digits[g + 1]>>

GoLevels == {DebugLevel, InfoLevel, ErrorLevel}

Alive == proc \in {"running", "hung"}

\* go func() { recv.WithChannel(channel).Level(message) }()
GoDerive(g, recv, channel, level) ==
    /\ Alive
    /\ Log # NoLogger
    /\ goroutines[g].pc = "idle"
    /\ Allocated(entries, recv)
    /\ LET r == WithChannel(entries, recv, channel) IN
        /\ entries' = r.heap
        /\ goroutines' = [goroutines EXCEPT ![g] =
               [pc |-> "log", e |-> r.ret, level |-> level,
                message |-> GoMessage(g), buf |-> <<>>]]
    /\ UNCHANGED <<Log, bugsnagClient, initCalls, sink, stderr, nsqLogger,
                   mu, proc, lastOp>>

\* go func() { recv.Level(message) }()
GoDirect(g, recv, level) ==
    /\ Alive
    /\ Log # NoLogger
    /\ goroutines[g].pc = "idle"
    /\ recv = 0 \/ Allocated(entries, recv)
    /\ goroutines' = [goroutines EXCEPT ![g] =
           [pc |-> "log", e |-> recv, level |-> level,
            message |-> GoMessage(g), buf |-> <<>>]]
    /\ UNCHANGED <<Log, bugsnagClient, initCalls, entries, sink, stderr,
                   nsqLogger, mu, proc, lastOp>>

\* Entry.Log: the level filter
GoLog(g) ==
    /\ Alive
    /\ goroutines[g].pc = "log"
    /\ goroutines' = [goroutines EXCEPT ![g].pc =
           IF IsLevelEnabled(Log, goroutines[g].level)
           THEN "hooks" ELSE "done"]
    /\ UNCHANGED <<Log, bugsnagClient, initCalls, entries, sink, stderr,
                   nsqLogger, mu, proc, lastOp>>

\* Entry.fireHooks: the hooks fire with the mutex held; a hook that never
\* returns keeps it
GoFireHooks(g, deliver) ==
    /\ Alive
    /\ goroutines[g].pc = "hooks"
    /\ mu = {}
    /\ LET gr == goroutines[g]
           h  == HooksFire(Log, gr.level, EntryData(gr.e), gr.message, deliver)
       IN  /\ goroutines' = [goroutines EXCEPT ![g].pc =
                                IF h.returns THEN "lock" ELSE "hung"]
           /\ mu' = IF h.returns THEN mu ELSE {g}
           /\ stderr' = IF h.returns /\ h.err # "nil"
                        THEN Append(stderr, HookFailure(h.err))
                        ELSE stderr
    /\ UNCHANGED <<Log, bugsnagClient, initCalls, entries, sink, nsqLogger,
                   proc, lastOp>>

\* Entry.write: Lock, then Format
GoLock(g) ==
    /\ Alive
    /\ goroutines[g].pc = "lock"
    /\ mu = {}
    /\ mu' = {g}
    /\ LET gr == goroutines[g] IN
       goroutines' = [goroutines EXCEPT ![g] =
           [gr EXCEPT !.pc = "write",
                      !.buf = Serialise(Format(EntryData(gr.e), gr.level,
                                               gr.message))]]
    /\ UNCHANGED <<Log, bugsnagClient, initCalls, entries, sink, stderr,
                   nsqLogger, proc, lastOp>>

\* Entry.write: Out.Write(serialized), one segment at a time
GoWrite(g) ==
    /\ Alive
    /\ goroutines[g].pc = "write"
    /\ LET gr == goroutines[g] IN
        /\ sink' = Append(sink, Head(gr.buf))
        /\ goroutines' = [goroutines EXCEPT ![g] =
               [gr EXCEPT !.buf = Tail(gr.buf),
                          !.pc = IF Tail(gr.buf) = <<>>
                                 THEN "unlock" ELSE "write"]]
    /\ UNCHANGED <<Log, bugsnagClient, initCalls, entries, stderr, nsqLogger,
                   mu, proc, lastOp>>

\* Entry.write: the deferred Unlock; the call returns
GoUnlock(g) ==
    /\ Alive
    /\ goroutines[g].pc = "unlock"
    /\ mu' = {}
    /\ goroutines' = [goroutines EXCEPT ![g].pc = "done"]
    /\ UNCHANGED <<Log, bugsnagClient, initCalls, entries, sink, stderr,
                   nsqLogger, proc, lastOp>>

----------------------------------------------------------------------------
(* The state after the package is loaded, and the specifications.          *)

Init ==
    /\ Log = NoLogger
    /\ bugsnagClient = Unconfigured
    /\ initCalls = <<>>
    /\ entries = <<>>
    /\ sink = <<>>
    /\ stderr = <<>>
    /\ nsqLogger = NoAdapter
    /\ mu = {}
    /\ goroutines = [g \in 1..NumGoroutines |-> Idle]
    /\ proc = "running"
    /\ lastOp = [op |-> "none"]

Deliveries == {"nil", "deliveryError"}

AllIdle == \A g \in 1..NumGoroutines : goroutines[g].pc = "idle"

\* TestMain's one Init(LoggingConfig{})
InitOnce == Log = NoLogger /\ InitCall(ZeroConfig)

SharedRoom == Len(entries) < MaxShared
HeapRoom == Len(entries) < MaxEntries

\* The main goroutine: the level set as the package's tests set it, a
\* chain of entries without and with an error, and every emit call on them
\* and on Log.
Next ==
    \/ InitOnce
    \/ \E l \in Levels : SetLevel(l)
    \/ entries = <<>> /\ NewEntryCall
    \/ SharedRoom /\ \E err \in Errors : WithErrorCall(Len(entries), err)
    \/ \E e \in 0..MaxShared, l \in Levels \ {TraceLevel}, m \in Messages,
          d \in Deliveries : Emit(e, l, m, d)

Spec == Init /\ [][Next]_vars

\* Init called again and again
NextInit == \E c \in Configs : InitCall(c)

SpecInit == Init /\ [][NextInit]_vars

\* The NSQ adapter: NSQLogger() at whatever level Log holds, and Output
NextNSQ ==
    \/ InitOnce
    \/ \E l \in Levels : SetLevel(l)
    \/ HeapRoom /\ NSQLoggerCall
    \/ \E s \in OutputInputs, d \in Deliveries : Output(s, d)

SpecNSQ == Init /\ [][NextNSQ]_vars

\* Chains: every With* call on every Entry there is, from the main
\* goroutine and from others
NextChain ==
    \/ InitOnce
    \/ HeapRoom /\ NewEntryCall
    \/ HeapRoom /\ \E e \in 1..MaxEntries, u \in UserIDs : WithUserCall(e, u)
    \/ HeapRoom /\ \E e \in 1..MaxEntries, c \in Channels :
                       WithChannelCall(e, c)
    \/ HeapRoom /\ \E e \in 1..MaxEntries, err \in {PlainError} :
                       WithErrorCall(e, err)
    \/ HeapRoom /\ \E e \in 1..MaxEntries, r \in Relations :
                       WithRelationCall(e, r)
    \/ HeapRoom /\ \E e \in 1..MaxEntries, id \in MessageIDs :
                       WithNSQMessageIDCall(e, id)
    \/ HeapRoom /\ \E e \in 1..MaxEntries : WithRutilusCall(e)
    \/ HeapRoom /\ \E e \in 1..MaxEntries, m \in Methods :
                       WithHTTPMethodCall(e, m)
    \/ HeapRoom /\ \E e \in 1..MaxEntries, c \in Codes :
                       WithHTTPResponseCodeCall(e, c)
    \/ HeapRoom /\ \E e \in 1..MaxEntries : WithFCMCall(e)
    \/ HeapRoom /\ \E e \in 1..MaxEntries : WithNotificationlistCall(e)
    \/ HeapRoom /\ \E e \in 1..MaxEntries, sp \in Spans : WithDDTraceCall(e, sp)
    \/ HeapRoom /\ \E e \in 1..MaxEntries, ev \in EventSamples :
                       WithEventCall(e, ev)
    \/ HeapRoom /\ \E e \in 1..MaxEntries, d \in {maxDuration} :
                       WithDurationCall(e, d)
    \/ HeapRoom /\ \E e \in 1..MaxEntries, d \in {maxDuration} :
                       WithDurationNSQCall(e, d)
    \/ HeapRoom /\ \E e \in 1..MaxEntries, d \in {minDuration} :
                       WithE2EDurationCall(e, d)
    \/ HeapRoom /\ \E g \in 1..NumGoroutines, recv \in 1..MaxEntries,
                      c \in Channels : GoDerive(g, recv, c, InfoLevel)

SpecChain == Init /\ [][NextChain]_vars

\* no Entry yet that a call on a string made
Fresh == \A i \in 1..Len(entries) :
             entries[i].keys \cap (FieldNames \cup
                 {"event", "event_name", "object_id", "subject_id"}) = {}

\* String-valued calls applied once to each receiver, and the result emitted
NextFields ==
    \/ InitOnce
    \/ SharedRoom /\ NewEntryCall
    \/ SharedRoom /\ \E e \in 1..MaxShared, u \in UserIDs : WithUserCall(e, u)
    \/ Fresh /\ \E e \in 1..MaxShared, f \in FieldNames, v \in Values :
                    WithStringFieldIgnoreEmptyCall(e, f, v)
    \/ Fresh /\ \E e \in 1..MaxShared, ev \in Events : WithEventCall(e, ev)
    \/ ~Fresh /\ Emit(Len(entries), InfoLevel, <<"m">>, "nil")

SpecFields == Init /\ [][NextFields]_vars

\* Durations set on an Entry, by either revision's WithDuration
NextDuration ==
    \/ InitOnce
    \/ SharedRoom /\ NewEntryCall
    \/ SharedRoom /\ \E e \in 1..MaxShared, u \in UserIDs : WithUserCall(e, u)
    \/ SharedRoom /\ \E e \in 1..MaxShared, d \in Durations :
                         WithDurationCall(e, d)
    \/ SharedRoom /\ \E e \in 1..MaxShared, d \in Durations :
                         WithDurationNSQCall(e, d)
    \/ SharedRoom /\ \E e \in 1..MaxShared, d \in Durations :
                         WithE2EDurationCall(e, d)

SpecDuration == Init /\ [][NextDuration]_vars

\* Goroutines over entries the main goroutine built before it spawned them
NextConc ==
    \/ AllIdle /\ Log = NoLogger /\ \E c \in {ZeroConfig, DebugConfig} :
                                        InitCall(c)
    \/ AllIdle /\ SharedRoom /\ NewEntryCall
    \/ AllIdle /\ SharedRoom /\ \E e \in 1..MaxShared, u \in UserIDs :
                                    WithUserCall(e, u)
    \/ AllIdle /\ SharedRoom /\ \E e \in 1..MaxShared, err \in Errors :
                                    WithErrorCall(e, err)
    \/ \E g \in 1..NumGoroutines :
        \/ \E recv \in 1..MaxShared, c \in Channels, l \in GoLevels :
               GoDerive(g, recv, c, l)
        \/ \E recv \in 0..MaxShared, l \in GoLevels : GoDirect(g, recv, l)
        \/ GoLog(g)
        \/ \E d \in Deliveries : GoFireHooks(g, d)
        \/ GoLock(g)
        \/ GoWrite(g)
        \/ GoUnlock(g)

SpecConc == Init /\ [][NextConc]_vars

----------------------------------------------------------------------------
(* Properties.                                                             *)

\* C1: an emit call at Severity s in {DEBUG, INFO, WARNING, ERROR}, made
\* while the Log's minimum Severity is m, appends exactly one record with
\* the call's message (and the Entry's fields) to the sink when s >= m and
\* appends nothing when s < m.
EmitWritesIffAtOrAboveMinimum ==
    (lastOp.op = "Emit"
        /\ lastOp.level \in {DebugLevel, InfoLevel, WarnLevel, ErrorLevel}) =>
    LET Severity(l) == CASE l = TraceLevel -> 0
                         [] l = DebugLevel -> 1
                         [] l = InfoLevel  -> 2
                         [] l = WarnLevel  -> 3
                         [] l = ErrorLevel -> 4
                         [] l = FatalLevel -> 5
                         [] l = PanicLevel -> 6
        record == [fields  |-> EntryData(lastOp.e),
                   level   |-> lastOp.level,
                   message |-> lastOp.message]
    IN  IF Severity(lastOp.level) >= Severity(Log.Level)
        THEN sink = lastOp.sinkBefore \o Serialise(record)
        ELSE sink = lastOp.sinkBefore

\* C2: with goroutines deriving from and emitting on shared Entries and
\* on the Log, every record that passes the level filter is in the sink
\* once its goroutine can go no further, and the sink holds whole records
\* only: the segments of one record are never split by another's.
ConcurrentRecordsWholeAndKept ==
    /\ \A i \in 1..Len(sink) :
        /\ sink[i].seg = "tail" =>
               i > 1 /\ sink[i - 1] = [record |-> sink[i].record,
                                       seg |-> "head"]
        /\ (sink[i].seg = "head" /\ i < Len(sink)) =>
               sink[i + 1] = [record |-> sink[i].record, seg |-> "tail"]
    /\ \A g \in 1..NumGoroutines :
        LET gr == goroutines[g]
            record == [fields |-> EntryData(gr.e), level |-> gr.level,
                       message |-> gr.message]
        IN  (gr.pc \in {"done", "hung"} /\ Log.Level >= gr.level) =>
            \E i \in 1..Len(sink) :
                /\ i < Len(sink)
                /\ sink[i] = [record |-> record, seg |-> "head"]
                /\ sink[i + 1] = [record |-> record, seg |-> "tail"]

\* C3: no With* call changes an Entry that exists: every step leaves
\* each existing Entry as it was, and each Entry a step creates holds its
\* receiver's fields with only the keys of that call set, so children of
\* one parent never see each other's fields.
EntriesNeverChange ==
    [][\A i \in 1..Len(entries') :
          IF i <= Len(entries)
          THEN entries'[i] = entries[i]
          ELSE LET child == entries'[i] IN
               IF child.parent = 0
               THEN child.data = EmptyFields
               ELSE /\ child.parent < i
                    /\ LET parent == entries'[child.parent] IN
                        /\ DOMAIN child.data = DOMAIN parent.data \cup child.keys
                        /\ \A k \in DOMAIN parent.data \ child.keys :
                               child.data[k] = parent.data[k]]_vars

\* C3's case: one parent with a WithUser child and a WithChannel child
\* that a goroutine derived, neither holding the other's key
SiblingsDerived ==
    \E a, b \in 1..Len(entries), g \in 1..NumGoroutines :
        /\ entries[a].parent = entries[b].parent
        /\ entries[a].parent # 0
        /\ entries[a].keys = {"user_id"}
        /\ entries[b].keys = {"channel"}
        /\ goroutines[g].e = b
        /\ "user_id" \notin DOMAIN entries[b].data
        /\ "channel" \notin DOMAIN entries[a].data

\* C4: after any number of Init calls the Log is the instance the first
\* call created, its minimum Severity is the one parsed from the first
\* call's LogLevel, and the error-reporting client holds the first call's
\* configuration with one before-notify callback.
InitOnlyFirstCallCounts ==
    initCalls # <<>> =>
        /\ Log.id = Len(<<"bugsnag's logger", "Log">>)
        /\ Log.Level = getLogrusLogLevel(initCalls[1].LogLevel)
        /\ Log.hooks = {"bugsnagHook"}
        /\ bugsnagClient.configured
        /\ bugsnagClient.APIKey = initCalls[1].BugsnagAPIKey
        /\ bugsnagClient.Logger.id = 1
        /\ bugsnagClient.Logger.Level = Log.Level
        /\ bugsnagClient.beforeNotify = 1
        /\ (Len(initCalls) > 1 => lastOp.created = FALSE)

\* C4's case: a second Init call whose LogLevel and API key both differ
\* from what the first call set
SecondInitDiffers ==
    /\ Len(initCalls) >= 2
    /\ lastOp.op = "Init"
    /\ getLogrusLogLevel(initCalls[2].LogLevel) # Log.Level
    /\ initCalls[2].BugsnagAPIKey # bugsnagClient.APIKey

\* C5: Output always returns nil; for a message of three bytes or fewer
\* it emits nothing; otherwise it emits the rest after the first three
\* bytes, trimmed of surrounding whitespace, once, on the adapter's Entry,
\* at DEBUG/INFO/WARNING/ERROR for the tags DBG/INF/WRN/ERR and at INFO for
\* any other three bytes.
OutputEmitsByTag ==
    lastOp.op = "Output" =>
    LET s    == lastOp.s
        tag  == SubSeq(s, 1, 3)
        rest == SubSeq(s, 4, Len(s))
        \* m is rest without its leading and trailing whitespace
        IsTrimOf(m, r) ==
            \E i \in 1..(Len(r) + 1), j \in 0..Len(r) :
                /\ m = SubSeq(r, i, j)
                /\ \A k \in 1..(i - 1) : r[k] \in {" ", "\t", "\n", "\r"}
                /\ \A k \in (j + 1)..Len(r) : r[k] \in {" ", "\t", "\n", "\r"}
                /\ m # <<>> => /\ m[1] \notin {" ", "\t", "\n", "\r"}
                               /\ m[Len(m)] \notin {" ", "\t", "\n", "\r"}
        level == CASE tag = <<"D", "B", "G">> -> DebugLevel
                   [] tag = <<"I", "N", "F">> -> InfoLevel
                   [] tag = <<"W", "R", "N">> -> WarnLevel
                   [] tag = <<"E", "R", "R">> -> ErrorLevel
                   [] OTHER -> InfoLevel
    IN  /\ lastOp.returned
        /\ lastOp.ret = "nil"
        /\ IF Len(s) <= 3
           THEN /\ lastOp.emissions = <<>>
                /\ sink = lastOp.sinkBefore
           ELSE /\ Len(lastOp.emissions) = 1
                /\ LET em == lastOp.emissions[1] IN
                    /\ em.e = nsqLogger.entry
                    /\ entries[em.e].data["component"].text = <<"n", "s", "q">>
                    /\ em.level = level
                    /\ IsTrimOf(em.message, rest)
                    /\ Log.Level >= em.level =>
                           sink = lastOp.sinkBefore \o Serialise(
                               [fields  |-> entries[em.e].data,
                                level   |-> level,
                                message |-> em.message])
                    /\ Log.Level < em.level => sink = lastOp.sinkBefore

\* C5's case: "DBG  a" (padded) written at DEBUG with the message "a"
OutputDebugWritten ==
    /\ lastOp.op = "Output"
    /\ lastOp.s = <<"D", "B", "G", " ", "a">>
    /\ Log.Level = DebugLevel
    /\ Len(sink) = 2
    /\ sink[1].record.message = <<"a">>
    /\ sink[1].record.level = DebugLevel

\* C6: WithEvent(raw) is decided by the number of parts of raw split on
\* ',': two parts give event_name = part 0 (left out when blank) and
\* object_id = part 1 as an integer, or 0 when it does not parse; three
\* parts give subject_id = part 2 as well, by the same rule; any other
\* count gives the one field event = raw (left out when blank) and none
\* of the other three.
WithEventFieldsByPartCount ==
    lastOp.op = "WithEvent" =>
    LET raw    == lastOp.arg
        parts  == Split(raw, ",")
        before == lastOp.heapBefore[lastOp.e].data
        after  == entries[lastOp.ret].data
        Blank(v) == \A i \in 1..Len(v) : v[i] \in {" ", "\t", "\n", "\r"}
        IntOrZero(p) == IF Atoi(p).err = "nil" THEN Atoi(p).text ELSE <<"0">>
        Name(d) == IF Blank(parts[1]) THEN d
                   ELSE SetField(d, "event_name", StringValue(parts[1]))
        expected ==
            IF Len(parts) = 2
            THEN SetField(Name(before), "object_id",
                          IntValue(IntOrZero(parts[2])))
            ELSE IF Len(parts) = 3
            THEN SetField(SetField(Name(before), "object_id",
                                   IntValue(IntOrZero(parts[2]))),
                          "subject_id", IntValue(IntOrZero(parts[3])))
            ELSE IF Blank(raw) THEN before
            ELSE SetField(before, "event", StringValue(raw))
    IN  after = expected

\* C7 as stated: a failed submission to the error-reporting client comes
\* back to the caller of the emit call that fired the hook.
HookFailureReturnedToCaller ==
    (lastOp.op = "Emit" /\ lastOp.fired /\ lastOp.deliver # "nil") =>
        lastOp.ret = lastOp.deliver

\* C7: the hook fires for every emitted ERROR, FATAL or PANIC record and
\* for no other; when the submission fails, Fire hands the failure to the
\* logging library, which prints it on standard error and still writes
\* the record; the emit call returns no value whatever the submission
\* did, and a submission without failure prints nothing.
HookFailureGoesToStderr ==
    lastOp.op = "Emit" =>
        /\ lastOp.ret = "nothing"
        /\ lastOp.fired <=>
               /\ lastOp.level \in {ErrorLevel, FatalLevel, PanicLevel}
               /\ Log.Level >= lastOp.level
        /\ IF lastOp.fired /\ lastOp.deliver # "nil"
           THEN /\ stderr = Append(lastOp.stderrBefore,
                                   <<"Failed to fire hook", lastOp.deliver>>)
                /\ sink = lastOp.sinkBefore \o Serialise(
                       [fields  |-> EntryData(lastOp.e),
                        level   |-> lastOp.level,
                        message |-> lastOp.message])
           ELSE stderr = lastOp.stderrBefore

\* C7's case: an ERROR emit whose submission failed, printed and written
FailedSubmissionPrinted ==
    /\ lastOp.op = "Emit"
    /\ lastOp.level = ErrorLevel
    /\ lastOp.fired
    /\ lastOp.deliver = "deliveryError"
    /\ stderr # <<>>
    /\ sink # <<>>

\* C8: the level name is looked up exactly: "ERROR", "WARNING", "INFO"
\* and "DEBUG" give their Severity, and any other string (the empty one,
\* another case, garbage) gives INFO; both loggers Init creates get it.
ParseLevelByExactName ==
    (lastOp.op = "Init" /\ lastOp.created) =>
    LET name == lastOp.config.LogLevel
        expected == CASE name = "ERROR"   -> ErrorLevel
                      [] name = "WARNING" -> WarnLevel
                      [] name = "INFO"    -> InfoLevel
                      [] name = "DEBUG"   -> DebugLevel
                      [] OTHER            -> InfoLevel
    IN  /\ Log.Level = expected
        /\ bugsnagClient.Logger.Level = expected

\* C8's case: Init with the lower-case name "debug" falls back to INFO
LowerCaseNameFallsBack ==
    /\ lastOp.op = "Init"
    /\ lastOp.created
    /\ lastOp.config.LogLevel = "debug"
    /\ Log.Level = InfoLevel

\* C9: NSQLogger() returns the queue-client level for the minimum
\* Severity the Log holds at the call: DEBUG to Debug, INFO to Info,
\* WARNING to Warning, and ERROR, FATAL and PANIC to Error; the adapter's
\* Entry carries component = "nsq".
NSQLoggerFollowsLevel ==
    lastOp.op = "NSQLogger" =>
    LET adapter == lastOp.ret IN
        /\ nsqLogger = adapter
        /\ Log.Level = DebugLevel => adapter.level = "LogLevelDebug"
        /\ Log.Level = InfoLevel  => adapter.level = "LogLevelInfo"
        /\ Log.Level = WarnLevel  => adapter.level = "LogLevelWarning"
        /\ Log.Level \in {ErrorLevel, FatalLevel, PanicLevel} =>
               adapter.level = "LogLevelError"
        /\ entries[adapter.entry].data =
               SetField(EmptyFields, "component", StringValue(<<"n", "s", "q">>))

\* C9's case: a second adapter, taken after the level was set to PANIC
SecondAdapterAtPanic ==
    /\ lastOp.op = "NSQLogger"
    /\ Log.Level = PanicLevel
    /\ lastOp.ret.level = "LogLevelError"
    /\ lastOp.ret.entry > Len(<<"NewEntry", "WithField">>)

\* C10: WithStringFieldIgnoreEmpty(key, value) returns the receiver
\* itself, nothing allocated or changed, when value is empty or all
\* whitespace; for any other value it returns a new Entry holding the
\* receiver's fields plus key = value, untrimmed, and a record emitted
\* from an Entry carries that Entry's fields.
IgnoreEmptyAddsOnlyNonBlank ==
    /\ lastOp.op = "WithStringFieldIgnoreEmpty" =>
        LET key    == lastOp.arg[1]
            value  == lastOp.arg[2]
            before == lastOp.heapBefore
            blank  == \A i \in 1..Len(value) :
                          value[i] \in {" ", "\t", "\n", "\r"}
        IN  IF blank
            THEN /\ lastOp.ret = lastOp.e
                 /\ entries = before
            ELSE /\ lastOp.ret = Len(before) + 1
                 /\ Len(entries) = Len(before) + 1
                 /\ entries[lastOp.e] = before[lastOp.e]
                 /\ LET old == before[lastOp.e].data
                        added == entries[lastOp.ret].data
                    IN  /\ DOMAIN added = DOMAIN old \cup {key}
                        /\ added[key] = [kind |-> "string", text |-> value]
                        /\ \A k \in DOMAIN old \ {key} : added[k] = old[k]
    /\ (lastOp.op = "Emit" /\ sink # <<>>) =>
           sink[Len(sink)].record.fields = entries[lastOp.e].data

\* C10's case: a value with leading whitespace was added untrimmed and a
\* record emitted from the result holds it
PaddedValueEmitted ==
    /\ lastOp.op = "Emit"
    /\ "nsq" \in DOMAIN entries[lastOp.e].data
    /\ entries[lastOp.e].data["nsq"].text = <<" ", "a">>
    /\ sink # <<>>
    /\ sink[Len(sink)].record.fields["nsq"].text = <<" ", "a">>

\* C11 as stated: for every duration d, WithDuration sets duration_ms
\* and WithE2EDuration sets e2e_duration_ms to the whole millisecond
\* nearest to d (a half goes away from zero), as an integer, and
\* WithDuration adds no field other than duration_ms.
DurationNearestMsOnly ==
    lastOp.op \in {"WithDuration", "WithDurationNSQ", "WithE2EDuration"} =>
    LET d      == lastOp.arg
        key    == IF lastOp.op = "WithE2EDuration"
                  THEN "e2e_duration_ms" ELSE "duration_ms"
        before == lastOp.heapBefore[lastOp.e].data
        after  == entries[lastOp.ret].data
        mag    == IF d.ns + d.ns >= 1000000 THEN Incr(d.ms) ELSE d.ms
        ms     == IF d.neg /\ mag # <<"0">> THEN <<"-">> \o mag ELSE mag
    IN  /\ DOMAIN after = DOMAIN before \cup {key}
        /\ after[key].text = ms
        /\ \A k \in DOMAIN before \ {key} : after[k] = before[k]

\* C11: duration_ms (e2e_duration_ms) is the whole millisecond nearest to
\* d, a half going away from zero, as an int64; except that a d within
\* half a millisecond of either end of int64, whose nearest millisecond
\* is no int64 count of nanoseconds, gives that end divided by 1,000,000
\* and truncated: 9223372036854 or -9223372036854.  WithE2EDuration adds
\* that one field; WithDuration adds duration_ms and, in the revision of
\* lines 500-504, nsq_message_process_duration = d in nanoseconds as well.
DurationRoundedOrSaturated ==
    lastOp.op \in {"WithDuration", "WithDurationNSQ", "WithE2EDuration"} =>
    LET d      == lastOp.arg
        key    == IF lastOp.op = "WithE2EDuration"
                  THEN "e2e_duration_ms" ELSE "duration_ms"
        added  == IF lastOp.op = "WithDurationNSQ"
                  THEN {key, "nsq_message_process_duration"} ELSE {key}
        before == lastOp.heapBefore[lastOp.e].data
        after  == entries[lastOp.ret].data
        up     == d.ns + d.ns >= 1000000
        atEnd  == d.ms = <<"9","2","2","3","3","7","2","0","3","6","8","5","4">>
        mag    == IF up /\ ~atEnd THEN Incr(d.ms) ELSE d.ms
        ms     == IF d.neg /\ mag # <<"0">> THEN <<"-">> \o mag ELSE mag
        raw    == StripZeros(d.ms \o SixDigits(d.ns))
    IN  /\ DOMAIN after = DOMAIN before \cup added
        /\ after[key] = [kind |-> "int64", text |-> ms]
        /\ lastOp.op = "WithDurationNSQ" =>
               after["nsq_message_process_duration"] =
                   [kind |-> "int64",
                    text |-> IF d.neg THEN <<"-">> \o raw ELSE raw]
        /\ \A k \in DOMAIN before \ added : after[k] = before[k]
        /\ entries[lastOp.e] = lastOp.heapBefore[lastOp.e]

\* C11's case: 1,499,500,000 ns, an exact half, set as duration_ms = 1500
HalfMillisecondRoundedUp ==
    /\ lastOp.op = "WithDuration"
    /\ lastOp.arg = [neg |-> FALSE, ms |-> <<"1", "4", "9", "9">>, ns |-> 500000]
    /\ entries[lastOp.ret].data["duration_ms"].text = <<"1", "5", "0", "0">>

\* C12: the before-notify callback returns for every error the hook
\* reports, leaving as the event's class the class of the first error in
\* the chain that is no wrapper, so every emit call that fires the hook,
\* one carrying an error that wraps a wrapped error included, returns.
BeforeNotifyAlwaysReturns ==
    (lastOp.op = "Emit" /\ lastOp.fired) =>
    LET data     == EntryData(lastOp.e)
        carried  == "error" \in DOMAIN data /\ data["error"].kind = "error"
        reported == IF ~carried THEN <<"*errors.errorString">>
                    ELSE IF lastOp.message # <<>>
                    THEN <<"*fmt.wrapError">> \o data["error"].text
                    ELSE data["error"].text
        callback == beforeNotify(reported)
    IN  /\ callback.returns
        /\ callback.ErrorClass # "*fmt.wrapError"
        /\ proc # "hung"

============================================================================
